---- MODULE Spec2Model ----
(***************************************************************************)
(* Model of src-tauri/src/core/python_bridge.rs: the supervision engine    *)
(* around the bundled Python interpreter (argument validation, first-run   *)
(* extraction of the bundled archive, the process executor, the retry      *)
(* supervisor and the Tauri entry points).                                 *)
(*                                                                         *)
(* Text is modelled as a sequence of chunks.  A chunk is either one        *)
(* character that the code inspects ("." "|" ";" ...) or a literal piece   *)
(* of text that contains none of those characters and none of the phrases  *)
(* the code searches for.  str.contains(c) is "some chunk equals c".       *)
(* The chunk "backtick" stands for the grave accent character (U+0060),    *)
(* which the lexer of TLA+ does not accept inside a module.                *)
(***************************************************************************)
EXTENDS Integers, Sequences, FiniteSets, TLC

(***************************************************************************)
(* Program constants.                                                      *)
(***************************************************************************)
PYTHON_COMMAND_TIMEOUT == 60

PYTHON_EXTRACTION_TIMEOUT == 300

PYTHON_MAX_RETRIES == 3

PYTHON_BASE_DELAY_MS == 1000

PYTHON_MAX_DELAY_MS == 15000

PYTHON_BACKOFF_MULTIPLIER == 2

ALLOWED_EXTENSIONS ==
  << <<".", "txt">>, <<".", "md">>, <<".", "doc">>, <<".", "docx">>, <<".", "rtf">> >>

\* DANGEROUS_CHARS of validate_file_path
PATH_DANGEROUS_CHARS == <<"|", ";", "&", "$", "backtick", ">", "<", "!", "{", "}">>

\* DANGEROUS_CHARS of sanitize_python_args
ARG_DANGEROUS_CHARS == <<"|", ";", "&", "$", "backtick">>

(***************************************************************************)
(* Bounds of the model.                                                    *)
(***************************************************************************)
\* The file-system operations of the extraction that may fail in one run.
MaxIoFailures == 1

\* The lines the children of one call write to standard error, in all.
MaxLines == 2

\* The largest batch whose deadline is computed.
MaxFiles == 30

\* The attempt numbers 1..MaxAttempt, and as many below 2^32, are tried.
MaxAttempt == 8

\* The jitter hashes 0..MaxHash are tried: every remainder of every divisor
\* the function uses.
MaxHash == 7499

\* The lines the children of a health check write to standard error, in all.
MaxLifeLines == 1

\* The paths validated on their own have at most MaxPathLen chunks.
MaxPathLen == 4

\* The argument lists sanitized on their own have at most MaxArgs arguments.
MaxArgs == 3

(***************************************************************************)
(* Results: Result<_, String>.  The field kind annotates which place of   *)
(* the code produced the value; the code only sees ok / out / msg.         *)
(***************************************************************************)
NoOut == [parses |-> FALSE, success |-> FALSE]

Ok(o) == [ok |-> TRUE, kind |-> "ok", out |-> o, msg |-> <<>>]

Err(k, m) == [ok |-> FALSE, kind |-> k, out |-> NoOut, msg |-> m]

NoResult == [ok |-> FALSE, kind |-> "none", out |-> NoOut, msg |-> <<>>]

(***************************************************************************)
(* Text helpers.                                                           *)
(***************************************************************************)
Contains(s, c) == \E i \in 1..Len(s) : s[i] = c

\* str.contains("..")
ContainsDotDot(s) == \E i \in 1..(Len(s) - 1) : s[i] = "." /\ s[i + 1] = "."

Range(s) == {s[i] : i \in 1..Len(s)}

\* char::to_lowercase on the chunks used for extensions
ToLower(c) ==
  CASE c = "TXT" -> "txt"
    [] c = "MD" -> "md"
    [] OTHER -> c

\* Index of the first element of chars contained in s, 0 when none is.
FirstDangerous(chars, s) ==
  LET hits == {i \in 1..Len(chars) : Contains(s, chars[i])}
  IN  IF hits = {} THEN 0 ELSE CHOOSE i \in hits : \A k \in hits : i <= k

\* Path::components skips trailing separators and "." components that are
\* not the first one.
RECURSIVE TrimPath(_)
TrimPath(p) ==
  IF p = <<>> THEN p
  ELSE IF p[Len(p)] = "/" THEN TrimPath(SubSeq(p, 1, Len(p) - 1))
  ELSE IF Len(p) >= 2 /\ p[Len(p)] = "." /\ p[Len(p) - 1] = "/"
  THEN TrimPath(SubSeq(p, 1, Len(p) - 2))
  ELSE p

\* Path::file_name: the last component of the path, what follows the last
\* "/" that is not a trailing one.
FileName(p) ==
  LET t == TrimPath(p)
      seps == {i \in 1..Len(t) : t[i] = "/"}
      last == IF seps = {} THEN 0 ELSE CHOOSE i \in seps : \A k \in seps : k <= i
  IN  SubSeq(t, last + 1, Len(t))

\* Path::extension: None (<<"none">>) without a dot in the file name, or when
\* the only dot is the leading one; otherwise what follows the last dot.
HasExtension(p) ==
  LET f == FileName(p)
      dots == {i \in 1..Len(f) : f[i] = "."}
  IN  f # <<".", ".">> /\ dots # {} /\ (CHOOSE i \in dots : \A k \in dots : k <= i) > 1

Extension(p) ==
  LET f == FileName(p)
      dots == {i \in 1..Len(f) : f[i] = "."}
      last == CHOOSE i \in dots : \A k \in dots : k <= i
  IN  SubSeq(f, last + 1, Len(f))

ExtStr_CaseSensitive(p) == <<".">> \o Extension(p)

\* format!(".{}", ext.to_string_lossy().to_lowercase())
ExtStr(p) == <<".">> \o [i \in 1..Len(Extension(p)) |-> ToLower(Extension(p)[i])]

(***************************************************************************)
(* validate_file_path                                                      *)
(***************************************************************************)
validate_file_path_CharsFirst(file_path) ==
  IF FirstDangerous(PATH_DANGEROUS_CHARS, file_path) # 0
  THEN Err("validation",
           <<"Invalid file path: forbidden character ",
             PATH_DANGEROUS_CHARS[FirstDangerous(PATH_DANGEROUS_CHARS, file_path)],
             " detected">>)
  ELSE IF ContainsDotDot(file_path)
  THEN Err("validation", <<"Invalid file path: path traversal detected">>)
  ELSE IF ~HasExtension(file_path)
  THEN Err("validation", <<"File has no extension. Only .txt and .md are allowed.">>)
  ELSE IF ExtStr(file_path) \notin Range(ALLOWED_EXTENSIONS)
  THEN Err("validation",
           <<"Unsupported file type ">> \o ExtStr(file_path)
             \o <<". Only .txt, .md, .doc, .docx, .rtf are allowed.">>)
  ELSE Ok(NoOut)

validate_file_path(file_path) ==
  IF ContainsDotDot(file_path)
  THEN Err("validation", <<"Invalid file path: path traversal detected">>)
  ELSE IF FirstDangerous(PATH_DANGEROUS_CHARS, file_path) # 0
  THEN Err("validation",
           <<"Invalid file path: forbidden character ",
             PATH_DANGEROUS_CHARS[FirstDangerous(PATH_DANGEROUS_CHARS, file_path)],
             " detected">>)
  ELSE IF ~HasExtension(file_path)
  THEN Err("validation", <<"File has no extension. Only .txt and .md are allowed.">>)
  ELSE IF ExtStr(file_path) \notin Range(ALLOWED_EXTENSIONS)
  THEN Err("validation",
           <<"Unsupported file type ">> \o ExtStr(file_path)
             \o <<". Only .txt, .md, .doc, .docx, .rtf are allowed.">>)
  ELSE Ok(NoOut)

(***************************************************************************)
(* sanitize_python_args: the first argument, in order, that contains a     *)
(* dangerous character is reported with the first such character.          *)
(***************************************************************************)
sanitize_python_args(args) ==
  LET bad == {i \in 1..Len(args) : FirstDangerous(ARG_DANGEROUS_CHARS, args[i]) # 0}
  IN  IF bad = {}
      THEN Ok(NoOut)
      ELSE LET i == CHOOSE i \in bad : \A k \in bad : i <= k
           IN  Err("validation",
                   <<"Invalid argument: forbidden character ",
                     ARG_DANGEROUS_CHARS[FirstDangerous(ARG_DANGEROUS_CHARS, args[i])],
                     " detected in ">> \o args[i])

(***************************************************************************)
(* calculate_python_backoff_delay(attempt: u32) -> u64.  A u32 is kept as  *)
(* its two 16-bit halves, so that every value of the type can be written.  *)
(***************************************************************************)
Half == 2^16

U32(hi, lo) == [hi |-> hi, lo |-> lo]

\* attempt - 1, for attempt >= 1
Pred32(a) ==
  IF a.lo > 0 THEN [a EXCEPT !.lo = @ - 1] ELSE [hi |-> a.hi - 1, lo |-> Half - 1]

\* x as i32: the same 32 bits read as two's complement
AsI32(a) == IF a.hi < Half \div 2 THEN a.hi * Half + a.lo ELSE (a.hi - Half) * Half + a.lo

Min(a, b) == IF a < b THEN a ELSE b

Max(a, b) == IF a > b THEN a ELSE b

\* A u64 above every delay: what a cast to u64 gives for a float too large
\* for the type, and for a negative i64.
HugeU64 == 2^30

\* (PYTHON_BASE_DELAY_MS as f64 * PYTHON_BACKOFF_MULTIPLIER.powi(e)) as u64:
\* the cast truncates and saturates.
ExponentialDelay(e) ==
  IF e >= 0
  THEN IF e > 20 THEN HugeU64 ELSE PYTHON_BASE_DELAY_MS * PYTHON_BACKOFF_MULTIPLIER^e
  ELSE IF e < -20 THEN 0 ELSE PYTHON_BASE_DELAY_MS \div PYTHON_BACKOFF_MULTIPLIER^(0 - e)

\* capped_delay
CappedDelay(attempt) ==
  Min(ExponentialDelay(AsI32(Pred32(attempt))), PYTHON_MAX_DELAY_MS)

\* (capped_delay as f64 * 0.25) as u64
JitterRange(capped) == capped \div 4

\* (hash % (jitter_range * 2)) as i64 - jitter_range as i64
Jitter(capped, hash) ==
  IF JitterRange(capped) > 0
  THEN (hash % (JitterRange(capped) * 2)) - JitterRange(capped)
  ELSE 0

\* x as u64, for an i64 x
AsU64(x) == IF x < 0 THEN HugeU64 ELSE x

calculate_python_backoff_delay_NoFloor(attempt, hash) ==
  Min(PYTHON_MAX_DELAY_MS,
      AsU64(CappedDelay(attempt) + Jitter(CappedDelay(attempt), hash)))

\* hash is hasher.finish() of the attempt number.
calculate_python_backoff_delay(attempt, hash) ==
  Max(100,
      Min(PYTHON_MAX_DELAY_MS,
          AsU64(CappedDelay(attempt) + Jitter(CappedDelay(attempt), hash))))

(***************************************************************************)
(* Inputs of the entry points.  Option<String> is a record with a flag.    *)
(***************************************************************************)
None == [some |-> FALSE, v |-> <<>>]

Some(t) == [some |-> TRUE, v |-> t]

GoodPath == <<"docs", "/", "a", ".", "txt">>

TraversalPath == <<".", ".", "/", "a", ".", "txt">>

BadExtPath == <<"a", ".", "exe">>

CleanText == <<"abc">>

DirtyText == <<"a", "|", "b">>

NoInput == [verb |-> "none", paths |-> <<>>, text |-> None]

\* verb: the entry point called.  paths: file_path (process) or file_paths
\* (batch).  text: password (process), query (query), collection_name
\* (stats, health, batch).  The other optional parameters are None.
Inputs ==
  [verb : {"process"}, paths : {<<GoodPath>>, <<TraversalPath>>, <<BadExtPath>>},
   text : {None, Some(DirtyText)}]
    \cup [verb : {"query"}, paths : {<<>>}, text : {Some(CleanText), Some(DirtyText)}]
    \cup [verb : {"stats", "health"}, paths : {<<>>}, text : {None, Some(DirtyText)}]
    \cup [verb : {"batch"}, paths : {<<>>, <<GoodPath>>, <<GoodPath, TraversalPath>>},
          text : {None}]
    \cup [verb : {"batch"}, paths : {<<GoodPath>>}, text : {Some(DirtyText)}]
    \cup [verb : {"status"}, paths : {<<>>}, text : {None}]

\* The inputs of the Jobs that run concurrently.
RaceInputs ==
  { [verb |-> "batch", paths |-> <<GoodPath>>, text |-> None],
    [verb |-> "batch", paths |-> <<GoodPath, GoodPath>>, text |-> None] }

RetryVerbs == {"process", "query", "stats", "health"}

\* collection_name.unwrap_or_else(|| "documents".to_string())
UnwrapOr(opt, default) == IF opt.some THEN opt.v ELSE default

\* get_chromadb_dir(..).to_string_lossy()
DbPath == <<"appdata/chroma_db">>

\* The argument vector each entry point builds.
BuildArgs(i) ==
  CASE i.verb = "process" ->
         << <<"--json">>, <<"--db-path">>, DbPath, <<"process">>, i.paths[1],
            <<"--collection">>, <<"documents">> >>
           \o (IF i.text.some THEN << <<"--password">>, i.text.v >> ELSE <<>>)
    [] i.verb = "query" ->
         << <<"--json">>, <<"--db-path">>, DbPath, <<"query">>, i.text.v,
            <<"--collection">>, <<"documents">>, <<"--top-k">>, <<"5">> >>
    [] i.verb = "stats" ->
         << <<"--json">>, <<"--db-path">>, DbPath, <<"stats">>,
            <<"--collection">>, UnwrapOr(i.text, <<"documents">>) >>
    [] i.verb = "health" ->
         << <<"--json">>, <<"--db-path">>, DbPath, <<"health">>,
            <<"--collection">>, UnwrapOr(i.text, <<"documents">>) >>
    [] i.verb = "batch" ->
         << <<"--json">>, <<"--db-path">>, DbPath, <<"batch">>, <<"--files">> >>
           \o i.paths
           \o << <<"--collection">>, UnwrapOr(i.text, <<"documents">>) >>
    [] OTHER -> <<>>

(***************************************************************************)
(* The bundled archive python312.zip: the interpreter, the scripts         *)
(* directory, the processor script and the rest of the runtime.  The order *)
(* of the entries in the archive is not fixed by the code.                 *)
(***************************************************************************)
ExeEntry == "python.exe"

ScriptsDirEntry == "scripts/"

ScriptEntry == "scripts/document_processor.py"

LibEntry == "Lib/os.py"

Entries == {ExeEntry, ScriptsDirEntry, ScriptEntry, LibEntry}

\* ZipFile::is_dir
IsDir(e) == e = ScriptsDirEntry

Archives ==
  { <<ExeEntry, ScriptsDirEntry, ScriptEntry, LibEntry>>,
    <<ScriptsDirEntry, ScriptEntry, ExeEntry, LibEntry>>,
    <<LibEntry, ScriptsDirEntry, ScriptEntry, ExeEntry>> }

Jobs == {"j1", "j2"}

(***************************************************************************)
(* State.                                                                  *)
(*   zipDirect, zipNested  python312.zip exists in the resource directory, *)
(*                         in its resources/ subdirectory                  *)
(*   archive               the entries of the archive, in order            *)
(*   fs                    each entry below python312/: absent, partial    *)
(*                         (created, content not complete) or full         *)
(*   dirCreated            python312/ exists                               *)
(*   ioFailures            file-system operations that have failed         *)
(*   extractedOk           some call of ensure_python_extracted has run    *)
(*                         the extraction loop to its end                  *)
(*   job                   per call in flight: its position (pc), its      *)
(*                         locals (inp, attempt, idx, last_error), what    *)
(*                         the current call of ensure_python_extracted saw *)
(*                         and did (exeAtCall, fsWrites, zipOpened), and   *)
(*                         what the call has done so far: invocations of   *)
(*                         execute_python_command and their results        *)
(*                         (outcomes), calls of ensure_python_extracted    *)
(*                         (ensures), children started (spawns), events    *)
(*                         emitted, the backoff sleeps (sleeps), and the   *)
(*                         result returned to the caller                   *)
(*   child                 per call and attempt: the child process (proc,  *)
(*                         its exit code and its standard output), the     *)
(*                         number of lines it has written to standard      *)
(*                         error (written) and those not yet read (pipe,   *)
(*                         each with its position among the lines          *)
(*                         written), the spawned reader task (reader,      *)
(*                         collected), and whether the deadline has fired  *)
(*                         and execute_python_command has returned.  What  *)
(*                         nothing reads any more is forgotten: the exit   *)
(*                         code, the output and the collected lines when   *)
(*                         execute_python_command returns, the lines left  *)
(*                         in the pipe when the reader task ends           *)
(*   forwarded             per call: the events the reader tasks have      *)
(*                         emitted, in the order of emission               *)
(*   calc                  the last evaluation of a pure function          *)
(*   hasher                the value DefaultHasher gives for each attempt  *)
(*                         number: fixed by the build of the standard      *)
(*                         library, and not specified by it                *)
(***************************************************************************)
VARIABLES zipDirect, zipNested, archive, fs, dirCreated, ioFailures, extractedOk, job

VARIABLES child, forwarded, calc

VARIABLES hasher

vars ==
  <<zipDirect, zipNested, archive, fs, dirCreated, ioFailures, extractedOk, job,
    child, forwarded, calc, hasher>>

exec == <<child, forwarded>>

env == <<zipDirect, zipNested, archive, hasher>>

InitJob ==
  [pc |-> "idle", inp |-> NoInput, attempt |-> 0, idx |-> 0,
   exeAtCall |-> FALSE, fsWrites |-> 0, zipOpened |-> FALSE,
   invocations |-> 0, ensures |-> 0, spawns |-> 0, partialSpawn |-> FALSE,
   outcomes |-> <<>>, events |-> <<>>, sleeps |-> <<>>,
   last_error |-> <<>>, result |-> NoResult]

\* The standard output of a child: whether it is valid UTF-8, and what
\* serde_json::from_str makes of it.
NoStdout == [utf8 |-> TRUE, parses |-> FALSE, success |-> FALSE]

\* No child has been spawned for the attempt.
NoChild ==
  [proc |-> "none", code |-> 0, out |-> NoStdout, pipe |-> <<>>, written |-> 0,
   reader |-> "none", collected |-> <<>>, fired |-> FALSE, returned |-> FALSE]

Attempts == 1..PYTHON_MAX_RETRIES

\* No pure function has been evaluated.
NoCalc == [op |-> "none"]

\* Values of hasher.finish() that give the least, the middle and the
\* greatest jitter of the first two attempts.
HashSamples == {0, 250, 999}

Init ==
  /\ zipDirect \in BOOLEAN
  /\ zipNested \in BOOLEAN
  /\ archive \in Archives
  /\ fs = [e \in Entries |-> "absent"]
  /\ dirCreated = FALSE
  /\ ioFailures = 0
  /\ extractedOk = FALSE
  /\ job = [j \in Jobs |-> InitJob]
  /\ child = [j \in Jobs |-> [n \in Attempts |-> NoChild]]
  /\ forwarded = [j \in Jobs |-> <<>>]
  /\ calc = NoCalc
  /\ hasher = [n \in Attempts |-> 0]

(***************************************************************************)
(* Events sent to the event sink (app_handle.emit).                        *)
(***************************************************************************)
DocEvent(status) ==
  [name |-> "document-processing", status |-> status, error_type |-> "",
   message |-> <<>>, attempt |-> 0, max_attempts |-> 0]

\* error_type of PythonErrorEvent: decided by the text of the error
ErrorType(e) ==
  IF Contains(e, "timed out") THEN "timeout"
  ELSE IF Contains(e, "Failed to spawn") THEN "spawn_error"
  ELSE "execution_error"

PythonErrorEvent_ZeroBased(e, attempt) ==
  [name |-> "python-error", status |-> "", error_type |-> ErrorType(e),
   message |-> e, attempt |-> attempt - 1, max_attempts |-> PYTHON_MAX_RETRIES]

PythonErrorEvent(e, attempt) ==
  [name |-> "python-error", status |-> "", error_type |-> ErrorType(e),
   message |-> e, attempt |-> attempt, max_attempts |-> PYTHON_MAX_RETRIES]

Emit(rec, ev) == [rec EXCEPT !.events = Append(@, ev)]

\* The entry point returns r to the caller.
Finish(rec, r) == [rec EXCEPT !.pc = "done", !.result = r]

\* execute_python_command is called: its first statement is the call of
\* ensure_python_extracted.
BeginExec(rec, n) ==
  [rec EXCEPT !.pc = "ensure", !.attempt = n, !.invocations = @ + 1]

(***************************************************************************)
(* The entry points after the executor (or the retry supervisor) has       *)
(* returned r: the ? operator, serde_json::from_str, the completion event. *)
(***************************************************************************)
process_document_tail_AlwaysComplete(rec, r) ==
  IF ~r.ok THEN Finish(rec, r)
  ELSE IF ~r.out.parses
  THEN Finish(rec, Err("decode", <<"Failed to parse Python output: ", "serde error">>))
  ELSE Finish(Emit(rec, DocEvent("complete")), r)

process_document_tail(rec, r) ==
  IF ~r.ok THEN Finish(rec, r)
  ELSE IF ~r.out.parses
  THEN Finish(rec, Err("decode", <<"Failed to parse Python output: ", "serde error">>))
  ELSE Finish(Emit(rec, DocEvent(IF r.out.success THEN "complete" ELSE "failed")), r)

\* query_documents, get_collection_stats, check_chromadb_health
query_tail(rec, r) ==
  IF ~r.ok THEN Finish(rec, r)
  ELSE IF ~r.out.parses
  THEN Finish(rec,
              Err("decode",
                  <<IF rec.inp.verb = "health"
                    THEN "Failed to parse ChromaDB health output: "
                    ELSE "Failed to parse Python output: ", "serde error">>))
  ELSE Finish(rec, r)

process_document_batch_tail(rec, r) ==
  IF ~r.ok THEN Finish(rec, r)
  ELSE IF ~r.out.parses
  THEN Finish(rec, Err("decode", <<"Failed to parse batch output: ", "serde error">>))
  ELSE Finish(Emit(rec, DocEvent("complete")), r)

EntryResume_DecodeRetried(rec, r) ==
  IF r.ok /\ ~r.out.parses /\ rec.inp.verb \in {"process", "query", "stats", "health"}
       /\ rec.attempt < PYTHON_MAX_RETRIES
  THEN BeginExec(Emit(rec, PythonErrorEvent(<<"Failed to parse Python output: ",
                                              "serde error">>, rec.attempt)),
                 rec.attempt + 1)
  ELSE CASE rec.inp.verb = "process" -> process_document_tail(rec, r)
         [] rec.inp.verb = "batch" -> process_document_batch_tail(rec, r)
         [] OTHER -> query_tail(rec, r)

EntryResume(rec, r) ==
  CASE rec.inp.verb = "process" -> process_document_tail(rec, r)
    [] rec.inp.verb = "batch" -> process_document_batch_tail(rec, r)
    [] OTHER -> query_tail(rec, r)

(***************************************************************************)
(* execute_python_command_with_retry: the loop for attempt in              *)
(* 1..=PYTHON_MAX_RETRIES.                                                 *)
(***************************************************************************)
LoopContinues_OneShort(attempt) == attempt + 1 < PYTHON_MAX_RETRIES

\* for attempt in 1..=PYTHON_MAX_RETRIES: there is an iteration after this one
LoopContinues(attempt) == attempt + 1 <= PYTHON_MAX_RETRIES

SleepsAfter_Always(attempt) == TRUE

\* if attempt < PYTHON_MAX_RETRIES { sleep }
SleepsAfter(attempt) == attempt < PYTHON_MAX_RETRIES

\* tokio::time::sleep(Duration::from_millis(delay)) after the attempt
Sleep(attempt) ==
  [attempt |-> attempt,
   ms |-> calculate_python_backoff_delay(U32(0, attempt), hasher[attempt])]

NextIteration_FirstError(rec) ==
  IF LoopContinues(rec.attempt)
  THEN BeginExec(rec, rec.attempt + 1)
  ELSE EntryResume(rec,
                   Err("exhausted",
                       <<"Python command failed after ", ToString(PYTHON_MAX_RETRIES), " attempts: ">>
                         \o rec.outcomes[1].msg))

\* The next iteration of the loop, or the statement after the loop.
NextIteration(rec) ==
  IF LoopContinues(rec.attempt)
  THEN BeginExec(rec, rec.attempt + 1)
  ELSE EntryResume(rec,
                   Err("exhausted",
                       <<"Python command failed after ", ToString(PYTHON_MAX_RETRIES), " attempts: ">>
                         \o rec.last_error))

RetryOk_NoReturn(rec, r) ==
  NextIteration([rec EXCEPT !.outcomes = Append(@, r), !.last_error = <<>>])

\* Ok(output) => return Ok(output)
RetryOk(rec, r) == EntryResume([rec EXCEPT !.outcomes = Append(@, r)], r)

RetryErr_SleepFirst(rec, r) ==
  LET rec0 == [rec EXCEPT !.outcomes = Append(@, r), !.last_error = r.msg]
  IN  IF SleepsAfter(rec.attempt)
      THEN [rec0 EXCEPT !.pc = "sleep", !.sleeps = Append(@, Sleep(rec.attempt))]
      ELSE NextIteration(Emit(rec0, PythonErrorEvent(r.msg, rec.attempt)))

\* Err(e) => last_error, the python-error event, the backoff sleep
RetryErr(rec, r) ==
  LET rec1 == Emit([rec EXCEPT !.outcomes = Append(@, r), !.last_error = r.msg],
                   PythonErrorEvent(r.msg, rec.attempt))
  IN  IF SleepsAfter(rec.attempt)
      THEN [rec1 EXCEPT !.pc = "sleep", !.sleeps = Append(@, Sleep(rec.attempt))]
      ELSE NextIteration(rec1)

ExecReturn_BatchRetried(rec, r) ==
  IF r.ok THEN RetryOk(rec, r) ELSE RetryErr(rec, r)

\* execute_python_command has returned r to its caller.
ExecReturn(rec, r) ==
  IF rec.inp.verb \in RetryVerbs
  THEN IF r.ok THEN RetryOk(rec, r) ELSE RetryErr(rec, r)
  ELSE EntryResume([rec EXCEPT !.outcomes = Append(@, r)], r)

\* Every entry of the archive has been written completely.
Installed(fsNow) == \A i \in 1..Len(archive) : fsNow[archive[i]] = "full"

\* Command::spawn has started a child.  partialSpawn records that it was
\* started from an installation some entry of which was not written.
Spawned(rec, fsNow) ==
  [rec EXCEPT !.spawns = @ + 1, !.partialSpawn = @ \/ ~Installed(fsNow)]

(***************************************************************************)
(* execute_python_command after ensure_python_extracted has returned Ok:   *)
(* sanitize_python_args, the two existence checks and the spawn.  fsNow is *)
(* the file system at that moment; spawnOk is whether the operating system *)
(* starts the child.                                                       *)
(***************************************************************************)
execute_python_command_spawn(rec, fsNow, spawnOk) ==
  LET s == sanitize_python_args(BuildArgs(rec.inp))
  IN  IF ~s.ok THEN ExecReturn(rec, s)
      ELSE IF fsNow[ExeEntry] = "absent"
      THEN ExecReturn(rec, Err("missing_binary",
                               <<"Bundled Python not found: ", "python312/python.exe">>))
      ELSE IF fsNow[ScriptEntry] = "absent"
      THEN ExecReturn(rec, Err("missing_script",
                               <<"Python script not found: ",
                                 "python312/scripts/document_processor.py">>))
      ELSE IF ~spawnOk
      THEN ExecReturn(rec, Err("spawn",
                               <<"Failed to spawn", " Python process: ", "os error">>))
      ELSE [Spawned(rec, fsNow) EXCEPT !.pc = "running"]

\* PythonStatus as the result of check_python_status
StatusResult(k) == [ok |-> TRUE, kind |-> k, out |-> NoOut, msg |-> <<>>]

\* check_python_status after ensure_python_extracted has returned r.  The
\* child python.exe --version is run to its end inside the call.
check_python_status_tail(rec, r, fsNow, spawnOk) ==
  IF ~r.ok THEN Finish(rec, StatusResult("status_extract_failed"))
  ELSE IF fsNow[ExeEntry] = "absent" THEN Finish(rec, StatusResult("status_no_binary"))
  ELSE LET rec1 == IF spawnOk THEN Spawned(rec, fsNow) ELSE rec
       IN  IF fsNow[ScriptEntry] = "absent"
           THEN Finish(rec1, StatusResult("status_no_scripts"))
           ELSE Finish(rec1, StatusResult("status_available"))

\* ensure_python_extracted has returned r to its caller.
EnsureReturn(rec, r, fsNow, spawnOk) ==
  IF rec.inp.verb = "status" THEN check_python_status_tail(rec, r, fsNow, spawnOk)
  ELSE IF r.ok THEN execute_python_command_spawn(rec, fsNow, spawnOk)
  ELSE ExecReturn(rec, r)

(***************************************************************************)
(* The entry points up to their first await.                               *)
(***************************************************************************)
process_document_EmitFirst(rec) ==
  LET v == validate_file_path(rec.inp.paths[1])
      rec1 == Emit(rec, DocEvent("starting"))
  IN  IF ~v.ok THEN Finish(rec1, v) ELSE BeginExec(rec1, 1)

process_document(rec) ==
  LET v == validate_file_path(rec.inp.paths[1])
  IN  IF ~v.ok THEN Finish(rec, v) ELSE BeginExec(Emit(rec, DocEvent("starting")), 1)

process_document_batch(rec) ==
  LET ps == rec.inp.paths
      bad == {i \in 1..Len(ps) : ~validate_file_path(ps[i]).ok}
  IN  IF ps = <<>>
      THEN Finish(rec, Err("validation", <<"No files provided for batch processing">>))
      ELSE IF bad # {}
      THEN Finish(rec, validate_file_path(ps[CHOOSE i \in bad : \A k \in bad : i <= k]))
      ELSE BeginExec(Emit(rec, DocEvent("starting")), 1)

EntryPoint(rec) ==
  CASE rec.inp.verb = "process" -> process_document(rec)
    [] rec.inp.verb = "batch" -> process_document_batch(rec)
    [] rec.inp.verb = "status" -> [rec EXCEPT !.pc = "ensure"]
    [] OTHER -> BeginExec(rec, 1)

TimeoutSecs_NoCap(i) ==
  CASE i.verb = "process" -> PYTHON_EXTRACTION_TIMEOUT
    [] i.verb = "batch" -> 300 + 120 * Len(i.paths)
    [] OTHER -> PYTHON_COMMAND_TIMEOUT

\* The deadline handed to execute_python_command, in seconds.
TimeoutSecs(i) ==
  CASE i.verb = "process" -> PYTHON_EXTRACTION_TIMEOUT
    [] i.verb = "batch" ->
         IF 300 + 120 * Len(i.paths) < 3600 THEN 300 + 120 * Len(i.paths) ELSE 3600
    [] OTHER -> PYTHON_COMMAND_TIMEOUT

\* What execute_python_command returns once the child has been spawned.
ChildOutcomes(i) ==
  { Ok([parses |-> TRUE, success |-> TRUE]), Ok([parses |-> FALSE, success |-> FALSE]),
    Err("failure", <<"Python process failed with exit code ", "Some(1)", ": ", "Traceback">>),
    Err("io", <<"Failed to read stdout: ", "stream did not contain valid UTF-8">>),
    Err("timeout", <<"Python command ", "timed out", " after ", ToString(TimeoutSecs(i)), "s">>) }
    \cup (IF i.verb = "process" THEN {Ok([parses |-> TRUE, success |-> FALSE])} ELSE {})
    \cup (IF i.verb = "query"
          THEN {Err("failure", <<"Python process failed with exit code ", "Some(1)", ": ",
                                 "requests.exceptions.ReadTimeout: ", "Read ", "timed out">>)}
          ELSE {})

(***************************************************************************)
(* ensure_python_extracted.  Two calls may run at the same time on two     *)
(* worker threads, so every file-system operation is a step of its own.    *)
(***************************************************************************)
python_exe_exists_WrongPath(fsNow) == FALSE

\* python_exe.exists()
python_exe_exists(fsNow) == fsNow[ExeEntry] # "absent"

\* get_python_zip_path
get_python_zip_path ==
  IF zipDirect THEN "resources/python312.zip" ELSE "resources/resources/python312.zip"

zip_path_exists_Assumed == TRUE

\* zip_path.exists()
zip_path_exists == IF zipDirect THEN TRUE ELSE zipNested

BootstrapErr(what) == Err("bootstrap", <<what, "os error">>)

IoFails ==
  /\ ioFailures < MaxIoFailures
  /\ ioFailures' = ioFailures + 1

\* The call, the check of the interpreter binary and of the archive.
EnsureCheck(j) ==
  /\ job[j].pc = "ensure"
  /\ LET rec == [job[j] EXCEPT !.ensures = @ + 1, !.exeAtCall = (fs[ExeEntry] # "absent"),
                               !.fsWrites = 0, !.zipOpened = FALSE, !.idx = 0]
     IN  \E spawnOk \in BOOLEAN :
           job' = [job EXCEPT ![j] =
                     IF python_exe_exists(fs)
                     THEN EnsureReturn(rec, Ok(NoOut), fs, spawnOk)
                     ELSE IF ~zip_path_exists
                     THEN EnsureReturn(rec,
                                       Err("bootstrap",
                                           <<"Python archive not found at: ",
                                             get_python_zip_path, ". Reinstall MOBIUS.">>),
                                       fs, spawnOk)
                     ELSE [rec EXCEPT !.pc = "mkdir"]]
  /\ UNCHANGED <<env, exec, calc, fs, dirCreated, ioFailures, extractedOk>>

\* std::fs::create_dir_all(&python_dir)
MkdirOk(j) ==
  /\ job[j].pc = "mkdir"
  /\ dirCreated' = TRUE
  /\ job' = [job EXCEPT ![j].pc = "open", ![j].fsWrites = @ + 1]
  /\ UNCHANGED <<env, exec, calc, fs, ioFailures, extractedOk>>

MkdirFail(j) ==
  /\ job[j].pc = "mkdir"
  /\ IoFails
  /\ \E spawnOk \in BOOLEAN :
       job' = [job EXCEPT ![j] =
                 EnsureReturn(job[j], BootstrapErr("Failed to create Python directory: "),
                              fs, spawnOk)]
  /\ UNCHANGED <<env, exec, calc, fs, dirCreated, extractedOk>>

\* File::open(&zip_path) and ZipArchive::new(file)
OpenOk(j) ==
  /\ job[j].pc = "open"
  /\ job' = [job EXCEPT ![j].pc = "entry", ![j].zipOpened = TRUE, ![j].idx = 1]
  /\ UNCHANGED <<env, exec, calc, fs, dirCreated, ioFailures, extractedOk>>

OpenFail(j) ==
  /\ job[j].pc = "open"
  /\ IoFails
  /\ \E what \in {"Failed to open Python archive: ", "Failed to read Python archive: "},
        spawnOk \in BOOLEAN :
       job' = [job EXCEPT ![j] =
                 EnsureReturn([job[j] EXCEPT
                                 !.zipOpened = (what = "Failed to read Python archive: ")],
                              BootstrapErr(what), fs, spawnOk)]
  /\ UNCHANGED <<env, exec, calc, fs, dirCreated, extractedOk>>

\* The end of one iteration of the loop over the entries: the next entry, or
\* Ok(()) after the last one.
EntryDone(j, rec, fsNow) ==
  IF rec.idx < Len(archive)
  THEN /\ job' = [job EXCEPT ![j] = [rec EXCEPT !.pc = "entry", !.idx = @ + 1]]
       /\ UNCHANGED extractedOk
  ELSE /\ \E spawnOk \in BOOLEAN :
            job' = [job EXCEPT ![j] = EnsureReturn(rec, Ok(NoOut), fsNow, spawnOk)]
       /\ extractedOk' = TRUE

\* A directory entry: create_dir_all(&outpath)
EntryDirOk(j) ==
  /\ job[j].pc = "entry"
  /\ IsDir(archive[job[j].idx])
  /\ fs' = [fs EXCEPT ![archive[job[j].idx]] = "full"]
  /\ EntryDone(j, [job[j] EXCEPT !.fsWrites = @ + 1], fs')
  /\ UNCHANGED <<env, exec, calc, dirCreated, ioFailures>>

\* A file entry: the parent directory and File::create(&outpath), which
\* truncates a file that exists.
EntryFileCreateOk(j) ==
  /\ job[j].pc = "entry"
  /\ ~IsDir(archive[job[j].idx])
  /\ fs' = [fs EXCEPT ![archive[job[j].idx]] = "partial"]
  /\ job' = [job EXCEPT ![j].pc = "copy", ![j].fsWrites = @ + 1]
  /\ UNCHANGED <<env, exec, calc, dirCreated, ioFailures, extractedOk>>

\* by_index(i), create_dir_all or File::create fails: nothing is written.
EntryFail(j) ==
  /\ job[j].pc = "entry"
  /\ IoFails
  /\ \E what \in {"Failed to read archive entry: "}
                   \cup (IF IsDir(archive[job[j].idx])
                         THEN {"Failed to create directory "}
                         ELSE {"Failed to create parent dir: ", "Failed to create file "}),
        spawnOk \in BOOLEAN :
       job' = [job EXCEPT ![j] = EnsureReturn(job[j], BootstrapErr(what), fs, spawnOk)]
  /\ UNCHANGED <<env, exec, calc, fs, dirCreated, extractedOk>>

\* std::io::copy(&mut entry, &mut outfile)
CopyOk(j) ==
  /\ job[j].pc = "copy"
  /\ fs' = [fs EXCEPT ![archive[job[j].idx]] = "full"]
  /\ EntryDone(j, [job[j] EXCEPT !.fsWrites = @ + 1], fs')
  /\ UNCHANGED <<env, exec, calc, dirCreated, ioFailures>>

\* The copy fails part-way: the file stays as far as it was written.
CopyFail(j) ==
  /\ job[j].pc = "copy"
  /\ IoFails
  /\ \E spawnOk \in BOOLEAN :
       job' = [job EXCEPT ![j] =
                 EnsureReturn(job[j], BootstrapErr("Failed to extract "), fs, spawnOk)]
  /\ UNCHANGED <<env, exec, calc, fs, dirCreated, extractedOk>>

(***************************************************************************)
(* The remaining steps of a call.                                          *)
(***************************************************************************)
\* A command is invoked with an input of the set ins.
Invoke(j, ins) ==
  /\ job[j].pc = "idle"
  /\ \E i \in ins : job' = [job EXCEPT ![j] = EntryPoint([InitJob EXCEPT !.inp = i])]
  /\ UNCHANGED <<env, exec, calc, fs, dirCreated, ioFailures, extractedOk>>

\* A command is invoked while no other call is in flight.
Start(j) ==
  /\ \A k \in Jobs \ {j} : job[k].pc = "idle"
  /\ Invoke(j, Inputs)

\* A command is invoked, whatever the other calls do.
StartConcurrent(j) == Invoke(j, RaceInputs)

\* The child exits or the deadline passes: execute_python_command returns.
ChildExit(j) ==
  /\ job[j].pc = "running"
  /\ \E r \in ChildOutcomes(job[j].inp) : job' = [job EXCEPT ![j] = ExecReturn(job[j], r)]
  /\ UNCHANGED <<env, exec, calc, fs, dirCreated, ioFailures, extractedOk>>

\* tokio::time::sleep has elapsed.
Wake(j) ==
  /\ job[j].pc = "sleep"
  /\ job' = [job EXCEPT ![j] = NextIteration(job[j])]
  /\ UNCHANGED <<env, exec, calc, fs, dirCreated, ioFailures, extractedOk>>

\* The caller has the result; the slot is free for another call.
Return(j) ==
  /\ job[j].pc = "done"
  /\ job' = [job EXCEPT ![j] = InitJob]
  /\ UNCHANGED <<env, exec, calc, fs, dirCreated, ioFailures, extractedOk>>

\* The steps of ensure_python_extracted.
Bootstrap(j) ==
  \/ EnsureCheck(j)
  \/ MkdirOk(j)
  \/ MkdirFail(j)
  \/ OpenOk(j)
  \/ OpenFail(j)
  \/ EntryDirOk(j)
  \/ EntryFileCreateOk(j)
  \/ EntryFail(j)
  \/ CopyOk(j)
  \/ CopyFail(j)

\* One call at a time, with every input.
Next == \E j \in Jobs : Start(j) \/ Bootstrap(j) \/ ChildExit(j) \/ Wake(j) \/ Return(j)

Spec == Init /\ [][Next]_vars

\* Batch Jobs (which are not retried) run concurrently.
NextRace == \E j \in Jobs : StartConcurrent(j) \/ Bootstrap(j) \/ ChildExit(j) \/ Return(j)

SpecRace == Init /\ [][NextRace]_vars

(***************************************************************************)
(* execute_python_command once the child runs.  The child writes lines to  *)
(* its standard error and then exits; the task started with tokio::spawn   *)
(* reads them one by one; the future inside tokio::time::timeout reads     *)
(* standard output to its end, joins the task and waits for the exit.      *)
(* A line is its text, whether it is valid UTF-8, whether                  *)
(* serde_json::from_str parses it, and the values of its progress and      *)
(* file_result members: "true" and "false" are the JSON booleans, "str" is *)
(* any other JSON value, "absent" is no such member.                       *)
(***************************************************************************)
ProgressLine ==
  [text |-> "{progress:true,stage:embed}", utf8 |-> TRUE, json |-> TRUE,
   progress |-> "true", file_result |-> "absent"]

FileResultLine ==
  [text |-> "{file_result:true,file:a.txt}", utf8 |-> TRUE, json |-> TRUE,
   progress |-> "absent", file_result |-> "true"]

PlainLine ==
  [text |-> "Traceback", utf8 |-> TRUE, json |-> FALSE,
   progress |-> "absent", file_result |-> "absent"]

BadUtf8Line ==
  [text |-> "0xff", utf8 |-> FALSE, json |-> FALSE,
   progress |-> "absent", file_result |-> "absent"]

\* A JSON line with both flags true.
BothFlagsLine ==
  [text |-> "{progress:true,file_result:true}", utf8 |-> TRUE, json |-> TRUE,
   progress |-> "true", file_result |-> "true"]

\* A JSON line whose flags are not the boolean true.
NoFlagLine ==
  [text |-> "{progress:1,file_result:false}", utf8 |-> TRUE, json |-> TRUE,
   progress |-> "other", file_result |-> "other"]

\* The lines a child writes: every kind of line in a batch, whose child runs
\* once; progress reports and plain text in the commands that are retried;
\* plain text only in the health check, which reports no progress.
ChildLines(i) ==
  CASE i.verb = "batch" ->
         {ProgressLine, FileResultLine, PlainLine, BadUtf8Line, BothFlagsLine, NoFlagLine}
    [] i.verb = "health" -> {PlainLine}
    [] OTHER -> {ProgressLine, PlainLine}

\* What a child prints on standard output.
StdoutTexts ==
  { [utf8 |-> TRUE, parses |-> TRUE, success |-> TRUE],
    [utf8 |-> TRUE, parses |-> FALSE, success |-> FALSE],
    [utf8 |-> FALSE, parses |-> FALSE, success |-> FALSE] }

ExitCodes == {0, 1}

\* The inputs of the calls whose child is followed step by step.
ExecInputs ==
  { [verb |-> "query", paths |-> <<>>, text |-> Some(CleanText)],
    [verb |-> "batch", paths |-> <<GoodPath>>, text |-> None] }

\* The event the reader task emits for a line, or "collect".
HandleLine_CollectsAll(line) == "collect"

HandleLine_FileResultFirst(line) ==
  IF line.json /\ line.file_result = "true" THEN "batch-file-result"
  ELSE IF line.json /\ line.progress = "true" THEN "document-processing"
  ELSE "collect"

HandleLine(line) ==
  IF line.json /\ line.progress = "true" THEN "document-processing"
  ELSE IF line.json /\ line.file_result = "true" THEN "batch-file-result"
  ELSE "collect"

\* collected: the lines joined by a newline
JoinLines(lines) ==
  [k \in 1..(2 * Len(lines) - (IF lines = <<>> THEN 0 ELSE 1)) |->
     IF k % 2 = 1 THEN lines[(k + 1) \div 2].text ELSE "\n"]

\* The lines all children of call j have written so far.
LinesWritten(j) ==
  LET RECURSIVE Sum(_)
      Sum(n) == IF n = 0 THEN 0 ELSE child[j][n].written + Sum(n - 1)
  IN  Sum(PYTHON_MAX_RETRIES)

\* The lines the children of a call may write, in all.
LineBudget(i) == IF i.verb = "health" THEN MaxLifeLines ELSE MaxLines

\* The attempt in progress and its child.
Cur(j) == child[j][job[j].attempt]

\* The child has been spawned and execute_python_command awaits the timeout
\* future.
Awaiting(j) ==
  /\ job[j].pc = "running"
  /\ Cur(j).proc # "none"

\* The child is alive: it runs, with its standard output open or closed.
Alive(c) == c.proc \in {"running", "closed"}

\* The future inside the timeout is ready: standard output is at its end and
\* is not valid UTF-8, or the reader task has finished and the child has
\* exited.
InnerReady(c) ==
  \/ c.proc \in {"closed", "exited"} /\ ~c.out.utf8
  \/ c.proc = "exited" /\ c.reader = "finished"

\* Lines 372-412: the handles are taken and the reader task is spawned.
StartReader(j) ==
  /\ job[j].pc = "running"
  /\ Cur(j).proc = "none"
  /\ child' = [child EXCEPT ![j][job[j].attempt] =
                 [NoChild EXCEPT !.proc = "running", !.reader = "reading"]]
  /\ UNCHANGED <<env, fs, dirCreated, ioFailures, extractedOk, job, forwarded, calc>>

\* The child of attempt n writes a line to its standard error.
ChildWrite(j, n) ==
  /\ Alive(child[j][n])
  /\ LinesWritten(j) < LineBudget(job[j].inp)
  /\ \E line \in ChildLines(job[j].inp) :
       child' = [child EXCEPT ![j][n].written = @ + 1,
                              ![j][n].pipe =
                                IF child[j][n].reader = "reading"
                                THEN Append(@, [line |-> line, pos |-> child[j][n].written + 1])
                                ELSE @]
  /\ UNCHANGED <<env, fs, dirCreated, ioFailures, extractedOk, job, forwarded, calc>>

\* The child of attempt n closes its standard output and runs on.  Nothing
\* reads the end of the output before the exit unless read_to_string fails
\* there, so only output that is not valid UTF-8 is closed early.
ChildClosesStdout(j, n) ==
  /\ child[j][n].proc = "running"
  /\ \E out \in {o \in StdoutTexts : ~o.utf8} :
       child' = [child EXCEPT ![j][n].proc = "closed", ![j][n].out = out]
  /\ UNCHANGED <<env, fs, dirCreated, ioFailures, extractedOk, job, forwarded, calc>>

\* The child of attempt n exits by itself, its standard output written.
ChildExits(j, n) ==
  /\ Alive(child[j][n])
  /\ ~child[j][n].returned
  /\ \E code \in ExitCodes, out \in StdoutTexts :
       /\ child[j][n].proc = "closed" => out = child[j][n].out
       /\ child' = [child EXCEPT ![j][n].proc = "exited", ![j][n].code = code,
                                 ![j][n].out = out]
  /\ UNCHANGED <<env, fs, dirCreated, ioFailures, extractedOk, job, forwarded, calc>>

\* One turn of the loop of the reader task of attempt n: a line that is not
\* valid UTF-8 ends the loop, a progress or file_result line is emitted, any
\* other line is collected.
ReaderStep(j, n) ==
  /\ child[j][n].reader = "reading"
  /\ child[j][n].pipe # <<>>
  /\ LET c == child[j][n]
         line == Head(c.pipe).line
         rest == [c EXCEPT !.pipe = Tail(@)]
     IN  IF ~line.utf8
         THEN /\ child' = [child EXCEPT ![j][n] =
                             [c EXCEPT !.reader = "finished", !.pipe = <<>>]]
              /\ UNCHANGED forwarded
         ELSE IF HandleLine(line) = "collect"
         THEN /\ child' = [child EXCEPT ![j][n] =
                             IF c.returned THEN rest
                             ELSE [rest EXCEPT !.collected = Append(@, line)]]
              /\ UNCHANGED forwarded
         ELSE /\ child' = [child EXCEPT ![j][n] = rest]
              /\ forwarded' =
                   [forwarded EXCEPT ![j] =
                      Append(@, [name |-> HandleLine(line), line |-> line, attempt |-> n,
                                 pos |-> Head(c.pipe).pos, late |-> c.returned])]
  /\ UNCHANGED <<env, fs, dirCreated, ioFailures, extractedOk, job, calc>>

\* next_line returns Ok(None): the write end is closed and nothing is left.
ReaderEof(j, n) ==
  /\ child[j][n].reader = "reading"
  /\ child[j][n].pipe = <<>>
  /\ child[j][n].proc \in {"exited", "killed"}
  /\ child' = [child EXCEPT ![j][n].reader = "finished"]
  /\ UNCHANGED <<env, fs, dirCreated, ioFailures, extractedOk, job, forwarded, calc>>

\* if !status.success() { Err(..) } else { Ok(stdout_buf) }
ExitResult_IgnoresStatus(c) == Ok([parses |-> c.out.parses, success |-> c.out.success])

ExitResult(c) ==
  IF c.code # 0
  THEN Err("failure",
           <<"Python process failed with exit code ", "Some(" \o ToString(c.code) \o ")", ": ">>
             \o JoinLines(c.collected))
  ELSE Ok([parses |-> c.out.parses, success |-> c.out.success])

\* The future inside the timeout completes: read_to_string has failed, or the
\* task is joined and the exit status decides.
InnerResult(c) ==
  IF ~c.out.utf8
  THEN Err("io", <<"Failed to read stdout: ", "stream did not contain valid UTF-8">>)
  ELSE ExitResult(c)

Dropped_NoKill(c) == c

\* kill_on_drop(true): the child handle is dropped and a child that is alive
\* is killed.
Dropped(c) == [c EXCEPT !.proc = IF Alive(c) THEN "killed" ELSE @]

\* execute_python_command returns: its locals are dropped.
Returned(c) ==
  [Dropped(c) EXCEPT !.returned = TRUE, !.code = 0, !.out = NoStdout, !.collected = <<>>]

Complete(j) ==
  /\ Awaiting(j)
  /\ InnerReady(Cur(j))
  /\ child' = [child EXCEPT ![j][job[j].attempt] = Returned(@)]
  /\ job' = [job EXCEPT ![j] = ExecReturn(job[j], InnerResult(Cur(j)))]
  /\ UNCHANGED <<env, fs, dirCreated, ioFailures, extractedOk, forwarded, calc>>

\* The deadline passes while the future inside is pending: the timeout error
\* is returned, and the child is dropped, which kills it (kill_on_drop).  The
\* reader task is not aborted by the drop of its JoinHandle.
TimeoutError(i) ==
  Err("timeout", <<"Python command ", "timed out", " after ", ToString(TimeoutSecs(i)), "s">>)

DeadlineResult_Salvage(j) ==
  IF Cur(j).proc = "exited" THEN InnerResult(Cur(j)) ELSE TimeoutError(job[j].inp)

DeadlineResult(j) == TimeoutError(job[j].inp)

DeadlineCovers_StdoutOnly(c) == c.proc = "running"

\* The timeout races the whole future: the read of standard output, the
\* join of the reader task and the wait for the exit.
DeadlineCovers(c) == ~InnerReady(c)

Deadline(j) ==
  /\ Awaiting(j)
  /\ DeadlineCovers(Cur(j))
  /\ child' = [child EXCEPT ![j][job[j].attempt] =
                 [Returned(@) EXCEPT !.fired = TRUE]]
  /\ job' = [job EXCEPT ![j] = ExecReturn(job[j], DeadlineResult(j))]
  /\ UNCHANGED <<env, fs, dirCreated, ioFailures, extractedOk, forwarded, calc>>

\* A call starts on an installation that is extracted already.
StartExec(j) ==
  /\ j = "j1"
  /\ Invoke(j, ExecInputs)

InitExec ==
  /\ zipDirect = TRUE
  /\ zipNested = FALSE
  /\ archive = <<ExeEntry, ScriptsDirEntry, ScriptEntry, LibEntry>>
  /\ fs = [e \in Entries |-> "full"]
  /\ dirCreated = TRUE
  /\ ioFailures = 0
  /\ extractedOk = TRUE
  /\ job = [j \in Jobs |-> InitJob]
  /\ child = [j \in Jobs |-> [n \in Attempts |-> NoChild]]
  /\ forwarded = [j \in Jobs |-> <<>>]
  /\ calc = NoCalc
  /\ hasher = [n \in Attempts |-> 0]

\* One call, followed through its children and their reader tasks.
NextExec ==
  \E j \in Jobs :
    \/ StartExec(j)
    \/ EnsureCheck(j)
    \/ StartReader(j)
    \/ Complete(j)
    \/ Deadline(j)
    \/ Wake(j)
    \/ \E n \in Attempts :
         ChildWrite(j, n) \/ ChildExits(j, n) \/ ReaderStep(j, n) \/ ReaderEof(j, n)

SpecExec == InitExec /\ [][NextExec]_vars

(***************************************************************************)
(* The children of one retried call, which may also close their standard   *)
(* output and run on, or never exit.  Under SpecLifeFair the code of the    *)
(* call goes on when it can and the timers fire: the deadline of the        *)
(* timeout and the backoff sleep.  The child and the reader task, whose     *)
(* pipe a descendant of the child may hold open, are not obliged to move.   *)
(***************************************************************************)
LifeInputs == {[verb |-> "health", paths |-> <<>>, text |-> None]}

\* The slot of the call that is followed.
LifeJobs == {"j1"}

StartLife(j) ==
  /\ j \in LifeJobs
  /\ Invoke(j, LifeInputs)

NextLife ==
  \E j \in Jobs :
    \/ StartLife(j)
    \/ EnsureCheck(j)
    \/ StartReader(j)
    \/ Complete(j)
    \/ Deadline(j)
    \/ Wake(j)
    \/ \E n \in Attempts :
         \/ ChildWrite(j, n) \/ ChildClosesStdout(j, n) \/ ChildExits(j, n)
         \/ ReaderStep(j, n) \/ ReaderEof(j, n)

SpecLife == InitExec /\ [][NextLife]_vars

FairLife ==
  \A j \in LifeJobs :
    /\ WF_vars(EnsureCheck(j))
    /\ WF_vars(StartReader(j))
    /\ WF_vars(Complete(j) \/ Deadline(j))
    /\ WF_vars(Wake(j))

SpecLifeFair == SpecLife /\ FairLife

(***************************************************************************)
(* The retry supervisor on an installation that is extracted already, for  *)
(* every sampled value of the hasher.                                      *)
(***************************************************************************)
Hashers == [Attempts -> HashSamples]

RetryInputs == {i \in Inputs : i.verb \in RetryVerbs}

StartRetry(j) ==
  /\ j = "j1"
  /\ Invoke(j, RetryInputs)

InitRetry ==
  /\ zipDirect = TRUE
  /\ zipNested = FALSE
  /\ archive = <<ExeEntry, ScriptsDirEntry, ScriptEntry, LibEntry>>
  /\ fs = [e \in Entries |-> "full"]
  /\ dirCreated = TRUE
  /\ ioFailures = 0
  /\ extractedOk = TRUE
  /\ job = [j \in Jobs |-> InitJob]
  /\ child = [j \in Jobs |-> [n \in Attempts |-> NoChild]]
  /\ forwarded = [j \in Jobs |-> <<>>]
  /\ calc = NoCalc
  /\ hasher \in Hashers

NextRetry ==
  \E j \in Jobs : StartRetry(j) \/ EnsureCheck(j) \/ ChildExit(j) \/ Wake(j) \/ Return(j)

SpecRetry == InitRetry /\ [][NextRetry]_vars

(***************************************************************************)
(* The pure functions on their own, on the inputs of bounded sets.         *)
(***************************************************************************)
\* The attempt numbers tried: the first ones, 2^31 and 2^31 + 1, and the
\* last ones of the type.
AttemptSamples ==
  {U32(0, a) : a \in 1..MaxAttempt}
    \cup {U32(Half \div 2, 0), U32(Half \div 2, 1)}
    \cup {U32(Half - 1, Half - k) : k \in 1..MaxAttempt}

Hashes == 0..MaxHash

\* A batch of n files.
BatchOf(n) == [verb |-> "batch", paths |-> [k \in 1..n |-> GoodPath], text |-> None]

\* process_document_batch computes its deadline.
CalcTimeout ==
  /\ calc = NoCalc
  /\ \E n \in 1..MaxFiles :
       calc' = [op |-> "timeout", n |-> n, secs |-> TimeoutSecs(BatchOf(n))]
  /\ UNCHANGED <<env, fs, dirCreated, ioFailures, extractedOk, job, exec>>

\* The retry supervisor computes a delay.
CalcBackoff ==
  /\ calc = NoCalc
  /\ \E attempt \in AttemptSamples, hash \in Hashes :
       calc' = [op |-> "backoff", attempt |-> attempt, hash |-> hash,
                capped |-> CappedDelay(attempt),
                delay |-> calculate_python_backoff_delay(attempt, hash)]
  /\ UNCHANGED <<env, fs, dirCreated, ioFailures, extractedOk, job, exec>>

\* The chunks the validated paths are made of: names, the dot, the
\* separator, extensions in both cases, and forbidden characters.
PathChunks == {"a", ".", "/", "txt", "TXT", "exe", "|", "$"}

\* The sequences over S of length at most n.
SeqsUpTo(S, n) == UNION {[1..k -> S] : k \in 0..n}

\* The arguments of the sanitized lists.
ArgTexts ==
  { <<"abc">>, <<"a", "|", "b">>, <<"x", "$", ";">>, <<"a", ">", "b">>, <<"--use-ocr">> }

\* validate_file_path is applied to a path.
CalcValidate ==
  /\ calc = NoCalc
  /\ \E p \in SeqsUpTo(PathChunks, MaxPathLen) :
       calc' = [op |-> "validate", path |-> p, result |-> validate_file_path(p)]
  /\ UNCHANGED <<env, fs, dirCreated, ioFailures, extractedOk, job, exec>>

\* sanitize_python_args is applied to an argument list.
CalcSanitize ==
  /\ calc = NoCalc
  /\ \E args \in SeqsUpTo(ArgTexts, MaxArgs) :
       calc' = [op |-> "sanitize", args |-> args, result |-> sanitize_python_args(args)]
  /\ UNCHANGED <<env, fs, dirCreated, ioFailures, extractedOk, job, exec>>

NextCalc == CalcTimeout \/ CalcBackoff \/ CalcValidate \/ CalcSanitize

\* The pure functions, on every input of the bounded sets.
SpecCalc == InitExec /\ [][NextCalc]_vars

(***************************************************************************)
(* Properties.                                                             *)
(***************************************************************************)
\* The python-error events a call has emitted, in order.
PyErrors(rec) == SelectSeq(rec.events, LAMBDA e : e.name = "python-error")

\* The call went through execute_python_command_with_retry.
Supervised(rec) == rec.inp.verb \in RetryVerbs /\ rec.invocations > 0

AllFailed(rec) == \A n \in 1..Len(rec.outcomes) : ~rec.outcomes[n].ok

\* C1: a retry-supervised call all of whose executor invocations return an
\* error returns only after exactly 3 invocations and exactly 3 python-error
\* events, and what it returns is an error.
C1_AlwaysFailingExhaustsThreeAttempts ==
  \A j \in Jobs :
    LET rec == job[j]
    IN  (Supervised(rec) /\ AllFailed(rec) /\ rec.pc = "done")
          => /\ rec.invocations = 3
             /\ Len(rec.outcomes) = 3
             /\ Len(PyErrors(rec)) = 3
             /\ ~rec.result.ok

C1_Witness ==
  \E j \in Jobs :
    /\ Supervised(job[j]) /\ AllFailed(job[j]) /\ job[j].pc = "done"
    /\ job[j].outcomes[1].kind = "failure"
    /\ job[j].outcomes[2].kind = "timeout"
    /\ job[j].outcomes[3].kind = "spawn"

\* C2: in every state of a retry-supervised call at most 3 executor
\* invocations have been made, there is one python-error event per failed
\* invocation, and the k-th event carries max_attempts = 3 and attempt = k.
C2_AttemptsBoundedAndEventsNumbered ==
  \A j \in Jobs :
    LET rec == job[j]
        errs == PyErrors(rec)
    IN  rec.inp.verb \in RetryVerbs
          => /\ rec.invocations <= 3
             /\ Len(rec.outcomes) <= rec.invocations
             /\ Len(errs) = Cardinality({n \in 1..Len(rec.outcomes) : ~rec.outcomes[n].ok})
             /\ \A k \in 1..Len(errs) :
                  /\ errs[k].max_attempts = 3
                  /\ errs[k].attempt = k
                  /\ errs[k].attempt \in 1..3
                  /\ ~rec.outcomes[k].ok
                  /\ errs[k].message = rec.outcomes[k].msg

C2_Witness ==
  \E j \in Jobs :
    /\ job[j].inp.verb \in RetryVerbs
    /\ Len(PyErrors(job[j])) = 3
    /\ PyErrors(job[j])[3].attempt = 3

\* C3: when the executor returns Success at attempt n, the supervisor returns
\* that output at once: attempt n is the last invocation, there are n - 1
\* python-error events and n - 1 sleeps (those of the failed attempts before
\* it), and the entry point returns the output (or its decode error).
C3_SuccessShortCircuits ==
  \A j \in Jobs :
    LET rec == job[j]
    IN  rec.inp.verb \in RetryVerbs
          => \A n \in 1..Len(rec.outcomes) :
               rec.outcomes[n].ok
                 => /\ n = Len(rec.outcomes)
                    /\ rec.invocations = n
                    /\ rec.pc = "done"
                    /\ Len(PyErrors(rec)) = n - 1
                    /\ Len(rec.sleeps) = n - 1
                    /\ IF rec.outcomes[n].out.parses
                       THEN rec.result = rec.outcomes[n]
                       ELSE rec.result.kind = "decode"

C3_Witness ==
  \E j \in Jobs :
    /\ job[j].inp.verb \in RetryVerbs
    /\ Len(job[j].outcomes) = 2
    /\ job[j].outcomes[2].ok
    /\ job[j].result = job[j].outcomes[2]

\* Some path of the call is rejected by validate_file_path, or the batch
\* list is empty.
PathRejected(i) ==
  /\ i.verb \in {"process", "batch"}
  /\ \/ i.paths = <<>>
     \/ \E k \in 1..Len(i.paths) : ~validate_file_path(i.paths[k]).ok

\* C4: a process_document or process_document_batch call one of whose paths
\* is rejected (or whose list is empty) returns an error without a bootstrap
\* check, an executor invocation, a spawn or an event.
C4_RejectedPathDoesNothing ==
  \A j \in Jobs :
    LET rec == job[j]
    IN  PathRejected(rec.inp)
          => /\ rec.pc = "done"
             /\ ~rec.result.ok
             /\ rec.result.kind = "validation"
             /\ rec.ensures = 0
             /\ rec.invocations = 0
             /\ rec.spawns = 0
             /\ rec.fsWrites = 0
             /\ rec.events = <<>>

C4_Witness ==
  \E j \in Jobs :
    /\ job[j].inp.verb = "process"
    /\ job[j].inp.paths = <<TraversalPath>>
    /\ job[j].pc = "done"
    /\ job[j].result.msg = <<"Invalid file path: path traversal detected">>

\* C5: when sanitize_python_args rejects the arguments of a retry-supervised
\* call, the call returns that validation error after a single evaluation:
\* no python-error event, no sleep, no second attempt.
C5_BadArgumentNotRetried ==
  \A j \in Jobs :
    LET rec == job[j]
    IN  rec.inp.verb \in RetryVerbs
          => \A n \in 1..Len(rec.outcomes) :
               rec.outcomes[n].kind = "validation"
                 => /\ n = 1
                    /\ rec.invocations = 1
                    /\ rec.pc = "done"
                    /\ rec.result = rec.outcomes[n]
                    /\ PyErrors(rec) = <<>>
                    /\ rec.sleeps = <<>>

\* C6: a call whose arguments sanitize_python_args rejects never has
\* ensure_python_extracted create a directory, open the archive or write an
\* entry.
C6_ValidationBeforeBootstrap ==
  \A j \in Jobs :
    LET rec == job[j]
    IN  (rec.inp.verb \in RetryVerbs \cup {"batch"}
           /\ ~sanitize_python_args(BuildArgs(rec.inp)).ok)
          => /\ rec.fsWrites = 0
             /\ ~rec.zipOpened
             /\ rec.pc \notin {"mkdir", "open", "entry", "copy"}

\* C7: when ensure_python_extracted fails inside a retry-supervised call, the
\* call returns after that one attempt: no further executor invocation and no
\* sleep.
C7_BootstrapErrorNotRetried ==
  \A j \in Jobs :
    LET rec == job[j]
    IN  rec.inp.verb \in RetryVerbs
          => \A n \in 1..Len(rec.outcomes) :
               rec.outcomes[n].kind = "bootstrap"
                 => /\ n = 1
                    /\ rec.invocations = 1
                    /\ rec.pc = "done"
                    /\ rec.sleeps = <<>>

\* C8: no Job ever starts a child while some entry of the archive has not
\* been written completely, also after an extraction has failed part-way.
C8_NeverPartiallyExecutable ==
  \A j \in Jobs : job[j].inp.verb # "status" => ~job[j].partialSpawn

\* The call has failed on the interpreter or the script missing.
MissingFileError(rec) ==
  \E n \in 1..Len(rec.outcomes) :
    rec.outcomes[n].kind \in {"missing_binary", "missing_script"}

\* C9: when Jobs run concurrently and no file-system operation fails, no Job
\* starts a child before every entry of the archive is written, and none
\* fails on a missing interpreter or script.
C9_BootstrapSafeToRace ==
  ioFailures = 0 => \A j \in Jobs : ~job[j].partialSpawn /\ ~MissingFileError(job[j])

\* A call of ensure_python_extracted that found the interpreter binary has
\* written nothing, has not opened the archive, and has returned Ok.
C10_FastPath ==
  \A j \in Jobs :
    LET rec == job[j]
    IN  rec.exeAtCall
          => /\ rec.fsWrites = 0
             /\ ~rec.zipOpened
             /\ rec.pc \notin {"mkdir", "open", "entry", "copy"}
             /\ \A n \in 1..Len(rec.outcomes) :
                  (n = rec.invocations) => rec.outcomes[n].kind # "bootstrap"
             /\ rec.result.kind # "status_extract_failed"

\* Once an extraction has run to its end, a step leaves the installation as
\* it is.
C10_NoWriteAfterExtraction ==
  extractedOk => (fs' = fs /\ dirCreated' = dirCreated /\ extractedOk')

\* C10: a call of ensure_python_extracted that finds the interpreter binary
\* returns Ok without opening the archive and without creating or writing
\* anything; and when calls run one at a time, once one extraction has run to
\* its end no later step writes to the installation.
C10_FastPathIdempotent == [](C10_FastPath) /\ [][C10_NoWriteAfterExtraction]_vars

C10_Witness ==
  \E j \in Jobs :
    /\ extractedOk
    /\ job[j].exeAtCall
    /\ job[j].ensures = 2
    /\ job[j].pc = "running"

\* C11: once the deadline of an invocation has fired, the child of that
\* invocation is not running any more and the invocation has returned the
\* timeout error, never Success; and the timeout error is returned only when
\* the deadline has fired.
C11_DeadlineKillsAndFails ==
  \A j \in Jobs : \A n \in Attempts :
    LET c == child[j][n]
        outs == job[j].outcomes
    IN  /\ c.fired
          => /\ c.proc \in {"killed", "exited"}
             /\ c.returned
             /\ n <= Len(outs)
             /\ ~outs[n].ok
             /\ outs[n].kind = "timeout"
             /\ outs[n] = TimeoutError(job[j].inp)
        /\ (n <= Len(outs) /\ outs[n].kind = "timeout") => c.fired

C11_Witness ==
  \E j \in Jobs : \E n \in Attempts :
    /\ child[j][n].fired
    /\ child[j][n].proc = "killed"
    /\ child[j][n].written > 0
    /\ job[j].outcomes[n].kind = "timeout"

\* C12: no event read from the standard error of an attempt is emitted after
\* execute_python_command has returned the timeout error for that attempt.
C12_NoEventAfterTimeout ==
  \A j \in Jobs : \A k \in 1..Len(forwarded[j]) :
    ~(forwarded[j][k].late /\ child[j][forwarded[j][k].attempt].fired)

\* C13: the events forwarded from standard error during one call come in the
\* order the children wrote the lines: those of one attempt in the order of
\* their positions, and none of an earlier attempt after one of a later
\* attempt.
C13_ProgressInOrder ==
  \A j \in Jobs : \A k, m \in 1..Len(forwarded[j]) :
    k < m
      => /\ forwarded[j][k].attempt <= forwarded[j][m].attempt
         /\ (forwarded[j][k].attempt = forwarded[j][m].attempt
               => forwarded[j][k].pos < forwarded[j][m].pos)

\* The text of a line that parses as JSON with progress = true.
IsProgressText(t) ==
  \E line \in ChildLines([verb |-> "batch"]) :
    line.json /\ line.progress = "true" /\ line.text = t

\* C14: the failure error of a child that exited with a non-zero status
\* holds no line that parses as JSON with progress = true.
C14_ProgressNotInDiagnostics ==
  \A j \in Jobs : \A n \in 1..Len(job[j].outcomes) :
    job[j].outcomes[n].kind = "failure"
      => \A k \in 1..Len(job[j].outcomes[n].msg) : ~IsProgressText(job[j].outcomes[n].msg[k])

C14_Witness ==
  \E j \in Jobs : \E n \in 1..Len(job[j].outcomes) :
    /\ job[j].outcomes[n].kind = "failure"
    /\ Contains(job[j].outcomes[n].msg, PlainLine.text)
    /\ \E k \in 1..Len(forwarded[j]) :
         /\ forwarded[j][k].attempt = n
         /\ forwarded[j][k].line = ProgressLine
         /\ forwarded[j][k].pos = 1

\* C15: a batch call makes at most one executor invocation, emits no
\* python-error event and never sleeps; when its paths are valid it has made
\* exactly one invocation when it returns, whatever that invocation returned.
C15_BatchInvokesOnce ==
  \A j \in Jobs :
    LET rec == job[j]
    IN  rec.inp.verb = "batch"
          => /\ rec.invocations <= 1
             /\ Len(rec.outcomes) <= 1
             /\ PyErrors(rec) = <<>>
             /\ rec.sleeps = <<>>
             /\ rec.pc # "sleep"
             /\ (rec.pc = "done" /\ ~PathRejected(rec.inp))
                  => /\ rec.invocations = 1
                     /\ Len(rec.outcomes) = 1
                     /\ (~rec.outcomes[1].ok => rec.result = rec.outcomes[1])

C15_Witness ==
  \E j \in Jobs :
    /\ job[j].inp.verb = "batch"
    /\ job[j].pc = "done"
    /\ job[j].spawns = 1
    /\ job[j].outcomes[1].kind = "failure"
    /\ job[j].result = job[j].outcomes[1]

\* execute_python_command returns in this step, its child having been
\* spawned.
Returns(j) ==
  /\ Awaiting(j)
  /\ Len(job'[j].outcomes) = Len(job[j].outcomes) + 1

\* What it returns in this step.
Returning(j) == job'[j].outcomes[Len(job'[j].outcomes)]

\* The failure error built from the exit code and the collected lines.
FailureOf(c) ==
  Err("failure",
      <<"Python process failed with exit code ", "Some(" \o ToString(c.code) \o ")", ": ">>
        \o JoinLines(c.collected))

C19_SuccessIffExitZero_Step ==
  \A j \in Jobs :
    Returns(j)
      => LET c == Cur(j)
             r == Returning(j)
         IN  /\ r.ok <=> (c.proc = "exited" /\ c.code = 0)
             /\ r.ok => r.out = [parses |-> c.out.parses, success |-> c.out.success]
             /\ (c.proc = "exited" /\ c.code # 0) => r = FailureOf(c)

C19_Amended_Step ==
  \A j \in Jobs :
    Returns(j)
      => LET c == Cur(j)
             r == Returning(j)
             joined == c.proc = "exited" /\ c.out.utf8 /\ c.reader = "finished"
         IN  /\ r.ok <=> (joined /\ c.code = 0)
             /\ r.ok => r.out = [parses |-> c.out.parses, success |-> c.out.success]
             /\ (joined /\ c.code # 0) => r = FailureOf(c)
             /\ (c.proc = "exited" /\ ~c.out.utf8) => r.kind = "io"
             /\ ~InnerReady(c) => r.kind = "timeout"

C16_BatchDeadline ==
  calc.op = "timeout"
    => /\ calc.secs = Min(300 + 120 * calc.n, 3600)
       /\ \A m \in 1..calc.n : TimeoutSecs(BatchOf(m)) <= calc.secs
       /\ calc.n >= 28 => calc.secs = 3600
       /\ calc.n < 28 => calc.secs < 3600

C16_Witness == calc.op = "timeout" /\ calc.n = 28 /\ calc.secs = 3600

\* C17: for every attempt number >= 1 and every jitter hash the delay is at
\* least 100 and at most 15000 milliseconds.
C17_DelayInRange ==
  calc.op = "backoff" => (100 <= calc.delay /\ calc.delay <= 15000)

C17_Witness ==
  /\ calc.op = "backoff"
  /\ calc.attempt = U32(Half - 1, Half - 4)
  /\ calc.capped < 100
  /\ calc.delay = 100

\* The attempt number as a natural number, when it is below 2^31.
Small(a) == a.hi = 0 /\ a.lo <= 20

\* min(1000 * 2^(attempt - 1), 15000) for the attempt number a
PreJitter(a) == IF Small(a) THEN Min(1000 * 2^(a.lo - 1), 15000) ELSE 15000

CauseOf(r) ==
  CASE r.kind = "timeout" -> "timeout"
    [] r.kind = "spawn" -> "spawn_error"
    [] OTHER -> "execution_error"

\* C21: the error_type of the python-error event of an attempt is timeout
\* exactly when the deadline expired, spawn_error exactly when the operating
\* system could not start the child, and execution_error otherwise, whatever
\* the diagnostic text of a failed child says.
C21_ErrorTypeMatchesCause ==
  \A j \in Jobs :
    LET rec == job[j]
    IN  \A k \in 1..Len(PyErrors(rec)) :
          k <= Len(rec.outcomes)
            => PyErrors(rec)[k].error_type = CauseOf(rec.outcomes[k])

\* The attempt of the call has been started and has not returned yet.
InAttempt(rec) == rec.pc \in {"ensure", "mkdir", "open", "entry", "copy", "running"}

\* C22: the python-error event of attempt n is emitted after the outcome of
\* attempt n is known, before the backoff sleep that follows the attempt
\* begins, before attempt n + 1 is started, and, for the last attempt, before
\* the aggregated failure is returned.
C22_EventBeforeSleepAndNextAttempt ==
  \A j \in Jobs :
    LET rec == job[j]
        errs == PyErrors(rec)
    IN  rec.inp.verb \in RetryVerbs
          => /\ Len(errs) <= Len(rec.outcomes)
             /\ Len(rec.sleeps) <= Len(errs)
             /\ rec.pc = "sleep"
                  => /\ Len(rec.outcomes) = rec.attempt
                     /\ Len(errs) = rec.attempt
                     /\ errs[rec.attempt].attempt = rec.attempt
                     /\ errs[rec.attempt].message = rec.outcomes[rec.attempt].msg
                     /\ rec.spawns <= rec.attempt
             /\ InAttempt(rec)
                  => /\ Len(rec.outcomes) = rec.attempt - 1
                     /\ Len(errs) = rec.attempt - 1
             /\ (rec.pc = "done" /\ rec.result.kind = "exhausted")
                  => /\ Len(errs) = PYTHON_MAX_RETRIES
                     /\ errs[PYTHON_MAX_RETRIES].message = rec.last_error

C22_Witness ==
  \E j \in Jobs :
    /\ job[j].inp.verb \in RetryVerbs
    /\ job[j].pc = "running"
    /\ job[j].attempt = 3
    /\ Len(job[j].sleeps) = 2
    /\ PyErrors(job[j])[2].error_type = "spawn_error"

\* The path has an extension and, in lower case, it is on the allow-list.
AllowedExtension(p) ==
  /\ HasExtension(p)
  /\ \E k \in 1..Len(ALLOWED_EXTENSIONS) :
       /\ Len(Extension(p)) = 1
       /\ ToLower(Extension(p)[1]) = ALLOWED_EXTENSIONS[k][2]

\* None of the characters of chars occurs in the text.
FreeOf(chars, t) == \A i \in 1..Len(chars) : ~Contains(t, chars[i])

\* C23 as stated: every path with an allow-listed extension and without
\* forbidden characters passes validate_file_path, and every argument list
\* without forbidden characters passes sanitize_python_args.
C23_CleanInputPasses ==
  /\ (calc.op = "validate" /\ AllowedExtension(calc.path)
        /\ FreeOf(PATH_DANGEROUS_CHARS, calc.path))
       => calc.result.ok
  /\ (calc.op = "sanitize"
        /\ \A i \in 1..Len(calc.args) : FreeOf(ARG_DANGEROUS_CHARS, calc.args[i]))
       => calc.result.ok

\* C23, amended: every path with an allow-listed extension, without
\* forbidden characters and without two dots in a row passes
\* validate_file_path, and every argument list without forbidden characters
\* passes sanitize_python_args.
C23_Amended ==
  /\ (calc.op = "validate" /\ AllowedExtension(calc.path)
        /\ FreeOf(PATH_DANGEROUS_CHARS, calc.path) /\ ~ContainsDotDot(calc.path))
       => calc.result = Ok(NoOut)
  /\ (calc.op = "sanitize"
        /\ \A i \in 1..Len(calc.args) : FreeOf(ARG_DANGEROUS_CHARS, calc.args[i]))
       => calc.result = Ok(NoOut)

C23_Witness ==
  /\ calc.op = "validate"
  /\ calc.path = <<"a", ".", "TXT", "/">>
  /\ calc.result.ok

\* C24: when all three attempts of a retry-supervised call have failed, the
\* one error the call returns names the attempt count 3 and ends with the
\* error of the third attempt, whatever the earlier attempts failed with.
C24_ExhaustionEmbedsLastError ==
  \A j \in Jobs :
    LET rec == job[j]
    IN  (Supervised(rec) /\ rec.pc = "done" /\ Len(rec.outcomes) = 3 /\ AllFailed(rec))
          => /\ ~rec.result.ok
             /\ rec.result.msg
                  = <<"Python command failed after ", "3", " attempts: ">> \o rec.outcomes[3].msg

C24_Witness ==
  \E j \in Jobs :
    /\ Supervised(job[j]) /\ job[j].pc = "done"
    /\ job[j].outcomes[1].kind = "timeout"
    /\ job[j].outcomes[2].kind = "spawn"
    /\ job[j].outcomes[3].kind = "failure"
    /\ job[j].result.msg[4] = "Python process failed with exit code "

\* The error of ensure_python_extracted when there is no archive.
ArchiveNotFound ==
  <<"Python archive not found at: ", "resources/resources/python312.zip",
    ". Reinstall MOBIUS.">>

\* C25: when the interpreter is not installed and there is no archive at
\* the primary nor at the nested location, ensure_python_extracted returns
\* the missing-archive error and leaves the file system as it was: the
\* installation directory is not created and no entry is written.
C25_MissingArchiveLeavesNoTrace ==
  (~zipDirect /\ ~zipNested)
    => /\ \A e \in Entries : fs[e] = "absent"
       /\ ~dirCreated
       /\ ~extractedOk
       /\ \A j \in Jobs :
            LET rec == job[j]
            IN  /\ rec.pc \notin {"mkdir", "open", "entry", "copy", "running"}
                /\ rec.fsWrites = 0 /\ ~rec.zipOpened /\ rec.spawns = 0
                /\ Len(rec.outcomes) <= rec.ensures
                /\ \A n \in 1..Len(rec.outcomes) :
                     /\ ~rec.outcomes[n].ok
                     /\ rec.outcomes[n].msg = ArchiveNotFound
                /\ (rec.inp.verb = "status" /\ rec.pc = "done")
                     => rec.result.kind = "status_extract_failed"

C25_Witness ==
  /\ ~zipDirect /\ ~zipNested /\ ~dirCreated
  /\ \E j \in Jobs :
       /\ job[j].inp.verb = "stats"
       /\ job[j].ensures = 2
       /\ Len(job[j].outcomes) = 2
       /\ job[j].outcomes[2].msg = ArchiveNotFound

\* The attempts of the call that have failed and are not the last one.
FailedBeforeLast(rec) ==
  {n \in 1..Len(rec.outcomes) : ~rec.outcomes[n].ok /\ n < 3}

\* C26: after the failed attempt n the supervisor sleeps, for exactly
\* calculate_python_backoff_delay(n) milliseconds, if and only if n < 3: the
\* k-th sleep of a call follows attempt k, and a call that exhausts its
\* attempts has slept exactly twice.
C26_SleepIffNotLastAttempt ==
  \A j \in Jobs :
    LET rec == job[j]
    IN  rec.inp.verb \in RetryVerbs
          => /\ Len(rec.sleeps) = Cardinality(FailedBeforeLast(rec))
             /\ \A k \in 1..Len(rec.sleeps) :
                  /\ rec.sleeps[k].attempt = k
                  /\ ~rec.outcomes[k].ok
                  /\ rec.sleeps[k].ms
                       = calculate_python_backoff_delay(U32(0, k), hasher[k])
                  /\ 4 * rec.sleeps[k].ms >= 3 * PreJitter(U32(0, k))
                  /\ 4 * rec.sleeps[k].ms <= 5 * PreJitter(U32(0, k))
             /\ rec.pc = "sleep" => Len(rec.sleeps) = rec.attempt
             /\ (rec.pc = "done" /\ Len(rec.outcomes) = 3 /\ AllFailed(rec))
                  => Len(rec.sleeps) = 2

C26_Witness ==
  \E j \in Jobs :
    /\ job[j].pc = "done" /\ Len(job[j].outcomes) = 3 /\ AllFailed(job[j])
    /\ Len(job[j].sleeps) = 2
    /\ job[j].sleeps[1].ms = 750
    /\ job[j].sleeps[2].ms = 2499

\* What the reader does with a line it has read: the name of the event it
\* forwards the line as, or "collect".
WayOf(line) ==
  CASE line.json /\ line.progress = "true" -> "document-processing"
    [] line.json /\ line.progress # "true" /\ line.file_result = "true" -> "batch-file-result"
    [] OTHER -> "collect"

\* The reader task of attempt n of call j takes a line from the pipe and
\* goes on reading.
ReadsLine(j, n) ==
  /\ child[j][n].reader = "reading"
  /\ child[j][n].pipe # <<>>
  /\ Head(child[j][n].pipe).line.utf8
  /\ child'[j][n].pipe = Tail(child[j][n].pipe)

\* Every event forwarded is the one its line calls for, no line was forwarded
\* twice, and the diagnostic buffer holds no line that is to be forwarded.
C27_Handled ==
  \A j \in Jobs :
    /\ \A k \in 1..Len(forwarded[j]) :
         /\ forwarded[j][k].name = WayOf(forwarded[j][k].line)
         /\ forwarded[j][k].name # "collect"
         /\ \A m \in 1..Len(forwarded[j]) :
              (forwarded[j][k].attempt = forwarded[j][m].attempt
                 /\ forwarded[j][k].pos = forwarded[j][m].pos) => k = m
    /\ \A n \in Attempts : \A i \in 1..Len(child[j][n].collected) :
         WayOf(child[j][n].collected[i]) = "collect"

\* A line read is either forwarded, once, as the event it calls for, or
\* appended to the diagnostic buffer (which is kept until
\* execute_python_command returns), and never both.
C27_Step ==
  \A j \in Jobs : \A n \in Attempts :
    ReadsLine(j, n)
      => LET c == child[j][n]
             line == Head(c.pipe).line
         IN  IF WayOf(line) = "collect"
             THEN /\ forwarded' = forwarded
                  /\ child'[j][n].collected
                       = IF c.returned THEN c.collected ELSE Append(c.collected, line)
             ELSE /\ child'[j][n].collected = c.collected
                  /\ Len(forwarded'[j]) = Len(forwarded[j]) + 1
                  /\ SubSeq(forwarded'[j], 1, Len(forwarded[j])) = forwarded[j]
                  /\ LET ev == forwarded'[j][Len(forwarded'[j])]
                     IN  /\ ev.name = WayOf(line)
                         /\ ev.line = line
                         /\ ev.attempt = n
                         /\ ev.pos = Head(c.pipe).pos

\* C27: every line the reader reads from standard error is handled in
\* exactly one way: forwarded as document-processing when it is JSON with
\* progress = true, forwarded as batch-file-result when it is JSON with
\* file_result = true and progress is not true, collected for the diagnostics
\* otherwise; no line is both forwarded and collected or forwarded twice,
\* whether the attempt succeeds or fails.
C27_EachLineHandledOnce == [](C27_Handled) /\ [][C27_Step]_vars

C27_Witness ==
  \E j \in Jobs :
    /\ Len(job[j].outcomes) = 1
    /\ job[j].outcomes[1].kind = "failure"
    /\ Contains(job[j].outcomes[1].msg, NoFlagLine.text)
    /\ Len(forwarded[j]) = 1
    /\ forwarded[j][1].line = BothFlagsLine
    /\ forwarded[j][1].name = "document-processing"
    /\ ~forwarded[j][1].late

\* The text has one of the characters of chars, and c is the first of chars
\* that it has.
FirstForbidden(chars, t, c) ==
  \E i \in 1..Len(chars) :
    /\ chars[i] = c
    /\ Contains(t, c)
    /\ \A k \in 1..(i - 1) : ~Contains(t, chars[k])

\* C28: validate_file_path reports the first violation in a fixed order: two
\* dots in a row give the path-traversal error whatever else is wrong;
\* otherwise a forbidden character gives the forbidden-character error that
\* names the first character of the list the path has; otherwise a missing
\* or not allow-listed extension, compared in lower case, gives the
\* unsupported-type error.
C28_FirstViolationReported ==
  calc.op = "validate"
    => LET p == calc.path
           r == calc.result
       IN  IF ContainsDotDot(p)
           THEN ~r.ok /\ r.msg = <<"Invalid file path: path traversal detected">>
           ELSE IF ~FreeOf(PATH_DANGEROUS_CHARS, p)
           THEN /\ ~r.ok
                /\ Len(r.msg) = 3
                /\ r.msg[1] = "Invalid file path: forbidden character "
                /\ FirstForbidden(PATH_DANGEROUS_CHARS, p, r.msg[2])
           ELSE IF ~AllowedExtension(p)
           THEN /\ ~r.ok
                /\ r.msg[1] \in {"File has no extension. Only .txt and .md are allowed.",
                                 "Unsupported file type "}
                /\ r.msg[1] = "Unsupported file type " <=> HasExtension(p)
           ELSE r.ok

C28_Witness ==
  /\ calc.op = "validate"
  /\ calc.path = <<"$", "|", ".", "exe">>
  /\ calc.result.msg[2] = "|"

C30_TerminalEventBeforeReturn ==
  \A j \in Jobs :
    LET rec == job[j]
    IN  (rec.inp.verb \in {"process", "batch"} /\ rec.pc = "done"
           /\ Contains(rec.events, DocEvent("starting")))
          => rec.events[Len(rec.events)] \in {DocEvent("complete"), DocEvent("failed")}

\* The attempts of call j whose child is alive.
AliveChildren(j) == {n \in Attempts : Alive(child[j][n])}

\* C31: within one call at most one child is alive at any time: every
\* invocation has spawned at most one child, a child whose invocation has
\* returned has exited or has been killed, and the only child that can be
\* alive is the one of the attempt in progress.
C31_OneChildAlive ==
  \A j \in Jobs :
    /\ Cardinality(AliveChildren(j)) <= 1
    /\ job[j].spawns <= job[j].invocations
    /\ \A n \in Attempts :
         LET c == child[j][n]
         IN  /\ c.returned => c.proc \in {"exited", "killed"}
             /\ n <= Len(job[j].outcomes) => c.proc \in {"none", "exited", "killed"}
             /\ Alive(c) => (n = job[j].attempt /\ job[j].pc = "running")
             /\ c.proc # "none" => n <= job[j].attempt

C31_Witness ==
  \E j \in Jobs :
    /\ child[j][1].proc = "killed" /\ child[j][1].fired
    /\ child[j][2].proc = "killed" /\ ~child[j][2].fired
    /\ job[j].outcomes[2].kind = "io"
    /\ child[j][3].proc = "closed"

\* execute_python_command_with_retry has returned Success or the aggregated
\* failure, and the call has returned.
RetryReturned(j) ==
  /\ job[j].pc = "done"
  /\ job[j].outcomes # <<>>
  /\ \/ job[j].outcomes[Len(job[j].outcomes)].ok
     \/ job[j].result.kind = "exhausted"

\* C32: when the deadline and the backoff sleep fire, every retry-supervised
\* call that has started returns, with Success or with the aggregated
\* failure, whatever its children do: exit, never exit, keep their output
\* open, or stop with lines unread.
C32_RetriedCallTerminates ==
  \A j \in LifeJobs : (job[j].pc # "idle") ~> RetryReturned(j)

C32_Witness ==
  \E j \in Jobs :
    /\ RetryReturned(j)
    /\ job[j].result.kind = "exhausted"
    /\ \A n \in Attempts :
         /\ child[j][n].fired
         /\ child[j][n].proc = "killed"
         /\ child[j][n].reader = "reading"
    /\ child[j][1].written = 0
    /\ child[j][3].written = 1

\* The text t occurs in the chunks of s.
ContainsText(s, t) ==
  /\ t # <<>>
  /\ \E i \in 1..(Len(s) - Len(t) + 1) : SubSeq(s, i, i + Len(t) - 1) = t

\* C33: the password given to process_document does not reach the event
\* sink or the caller: its text occurs in the message of no python-error
\* event and not in the error the call returns, so that two calls that
\* differ only in the password emit the same python-error events and return
\* the same error.
C33_PasswordConfidential ==
  \A j \in Jobs :
    LET rec == job[j]
    IN  (rec.inp.verb = "process" /\ rec.inp.text.some)
          => /\ \A k \in 1..Len(PyErrors(rec)) :
                  ~ContainsText(PyErrors(rec)[k].message, rec.inp.text.v)
             /\ (rec.pc = "done" /\ ~rec.result.ok)
                  => ~ContainsText(rec.result.msg, rec.inp.text.v)

====
